---- MODULE Spec2Model ----
(***************************************************************************)
(* Model of the spoiler-bounded answer pipeline of Spoiler-Shield-Backend: *)
(* aiService.generateAnswer (src/src/services/ai.service.ts), the          *)
(* questionsService persistence calls it makes                             *)
(* (src/src/services/questions.service.ts), the similarity helper          *)
(* (src/src/utils/embedding.util.ts) and the route that starts it          *)
(* (src/src/routes/questions.route.ts, POST /api/questions/:id/answer).    *)
(*                                                                         *)
(* Each await of generateAnswer is one action; the synchronous code        *)
(* between two awaits belongs to the action of the await before it.        *)
(* Every action takes the request slot it acts for; Spec serves the        *)
(* requests one at a time, over every stored table and chapter_limit;      *)
(* ConcurrentSpec interleaves two requests over well-formed data;          *)
(* RouteSpec serves the routes that create, update and delete a question.  *)
(* Arithmetic is exact: similarities are compared as exact reals, where    *)
(* the program uses IEEE doubles. The updated_at column is left out.       *)
(***************************************************************************)
EXTENDS Integers, Sequences, FiniteSets, TLC

VARIABLES
  questions,           \* table "questions": id -> row
  chapter_embeddings,  \* table "chapter_embeddings" joined with "chapters"
  pc,                  \* per request slot: position in the handler
  run,                 \* per request slot: locals of route handler and generateAnswer
  invocations,         \* number of requests accepted so far
  lastWriter           \* per question: the generateAnswer request whose write
                       \* took effect last

vars == <<questions, chapter_embeddings, pc, run, invocations, lastWriter>>

-----------------------------------------------------------------------------
(* Bounds of the model *)

\* chapters of the title, orders 1..NumChapters
NumChapters == 6
\* total number of POST /:id/answer requests in one behaviour
MaxInvocations == 2

-----------------------------------------------------------------------------
(* Values *)

NULL == "null"

Runs == {"r1", "r2"}
Users == {"u1", "u2"}
\* ids of stored questions, and an id no row has
QuestionIds == {"q1", "q2"}
MissingId == "qx"
RequestIds == QuestionIds \cup {MissingId}
Answers == {"a1", "a2"}
Statuses == {"pending", "answered", "failed"}

\* A nullable number (number | null) is <<>> for null and <<n>> for n.
NullNum == <<>>
Num(n) == <<n>>

\* chapter_limit values a stored row may hold (Row.chapter_limit: number | null)
ChapterLimits == {NullNum, Num(-1), Num(0), Num(2), Num(NumChapters)}

\* slice(0, 5)
TopK == 5

Min(a, b) == IF a < b THEN a ELSE b
Abs(n) == IF n < 0 THEN -n ELSE n

RECURSIVE SeqSum(_)
SeqSum(s) == IF s = <<>> THEN 0 ELSE Head(s) + SeqSum(Tail(s))

Reverse(s) == [i \in 1..Len(s) |-> s[Len(s) + 1 - i]]

-----------------------------------------------------------------------------
(* Stored chapters and embeddings *)

\* Embedding vectors of the stored chapters, by chapter order (cyclic).
\* Orders 1 and 4 hold the same vector, so similarities can tie.
ChapterVectors == << <<1, 0>>, <<0, 1>>, <<1, 1>>, <<1, 0>>, <<-1, 1>>, <<2, 1>> >>
VectorOf(order) == ChapterVectors[((order - 1) % Len(ChapterVectors)) + 1]

\* Vectors the embedding provider may return for the question text.
QuestionVectors == { <<0, 1>>, <<1, 2>> }

\* Row of table "chapters" (the columns the pipeline selects).
Chapter(order) ==
  [ id |-> "c" \o ToString(order),
    name |-> IF order = 2 THEN "" ELSE "Name" \o ToString(order),
    order |-> order,
    content |-> IF order = 3 THEN NULL ELSE "content" \o ToString(order),
    title_id |-> "t1" ]

\* JSON text of a number array, as a sequence of tokens.
NumberTokens == [ t \in {"-1", "0", "1", "2"} |->
                  CASE t = "-1" -> -1 [] t = "0" -> 0 [] t = "1" -> 1 [] t = "2" -> 2 ]

RECURSIVE Serialize(_)
Serialize(vec) ==
  IF vec = <<>> THEN <<>>
  ELSE <<ToString(Head(vec))>> \o
       (IF Tail(vec) = <<>> THEN <<>> ELSE <<",">> \o Serialize(Tail(vec)))

\* A stored embedding column: a native array or its serialized text.
ArrayEmbedding(vec) == [ type |-> "array", value |-> vec, text |-> <<>> ]
TextEmbedding(tokens) == [ type |-> "string", value |-> <<>>, text |-> tokens ]
StoredText(vec) == TextEmbedding(<<"[">> \o Serialize(vec) \o <<"]">>)
\* a text that JSON.parse rejects
BrokenText(vec) == TextEmbedding(<<"[">> \o Serialize(vec))

\* Row of chapter_embeddings joined with its chapter.
EmbeddingRow(order, embedding) == [ embedding |-> embedding, chapters |-> Chapter(order) ]

\* A row of another title: chapter 1 of "t2".
OtherTitleRow ==
  [ embedding |-> ArrayEmbedding(<<1, 0>>),
    chapters |-> [ id |-> "x1", name |-> "Other1", order |-> 1,
                   content |-> "other1", title_id |-> "t2" ] ]

\* The tables the store may hold. Each has the row of the other title, and
\* for title "t1": every chapter with its embedding, odd orders serialized as
\* text and even orders as native arrays; the same with an undecodable text
\* on the last chapter; no row at all; rows for the later chapters only;
\* every chapter, the first with too short an array; or every chapter, the
\* second with a zero vector.
TitleRows ==
  [ o \in 1..NumChapters |->
      EmbeddingRow(o, IF o % 2 = 1 THEN StoredText(VectorOf(o))
                                  ELSE ArrayEmbedding(VectorOf(o))) ]
MixedTable == <<OtherTitleRow>> \o TitleRows
BrokenTable ==
  <<OtherTitleRow>> \o
  [ o \in 1..NumChapters |->
      IF o = NumChapters THEN EmbeddingRow(o, BrokenText(VectorOf(o))) ELSE TitleRows[o] ]
NoRowsTable == <<OtherTitleRow>>
\* Table "chapters": title "t1" has chapters 1..NumChapters. Nothing makes a
\* chapter have a chapter_embeddings row (chapter_id is the only link).
ChapterTable == [ o \in 1..NumChapters |-> Chapter(o) ]
FirstEmbedded == 3
\* only the chapters from FirstEmbedded on have an embedding row
SparseTable == <<OtherTitleRow>> \o SubSeq(TitleRows, FirstEmbedded, NumChapters)
\* the first chapter's text decodes to an array with a component missing
ShortTable ==
  <<OtherTitleRow>> \o
  [ o \in 1..NumChapters |->
      IF o = 1 THEN EmbeddingRow(o, StoredText(Tail(VectorOf(o)))) ELSE TitleRows[o] ]
\* the second chapter's embedding is the zero vector
ZeroTable ==
  <<OtherTitleRow>> \o
  [ o \in 1..NumChapters |->
      IF o = 2 THEN EmbeddingRow(o, ArrayEmbedding([ i \in 1..Len(VectorOf(o)) |-> 0 ]))
      ELSE TitleRows[o] ]
EmbeddingTables ==
  { MixedTable, BrokenTable, NoRowsTable, SparseTable, ShortTable, ZeroTable }

\* Variant of RowsOfTitle with a defect: the join without the title filter.
RowsOfTitle_AnyTitle(table, title_id) == table

\* .eq("chapters.title_id", title_id) with chapters!inner
RowsOfTitle(table, title_id) ==
  LET Test(row) == row.chapters.title_id = title_id
  IN  SelectSeq(table, Test)

-----------------------------------------------------------------------------
(* Pure steps of generateAnswer *)

\* JSON.parse of an embedding text: [ok, value]; ok = FALSE when it throws.
RECURSIVE ParseElements(_)
ParseElements(tokens) ==
  IF tokens = <<>> THEN [ ok |-> FALSE, value |-> <<>> ]
  ELSE IF Head(tokens) \notin DOMAIN NumberTokens THEN [ ok |-> FALSE, value |-> <<>> ]
  ELSE IF Len(tokens) = 1 THEN [ ok |-> TRUE, value |-> <<NumberTokens[Head(tokens)]>> ]
  ELSE IF tokens[2] # "," THEN [ ok |-> FALSE, value |-> <<>> ]
  ELSE LET rest == ParseElements(SubSeq(tokens, 3, Len(tokens)))
       IN  [ ok |-> rest.ok,
             value |-> IF rest.ok THEN <<NumberTokens[Head(tokens)]>> \o rest.value
                       ELSE <<>> ]

JSONParse(tokens) ==
  IF Len(tokens) < 2 \/ Head(tokens) # "[" \/ tokens[Len(tokens)] # "]"
    THEN [ ok |-> FALSE, value |-> <<>> ]
  ELSE IF Len(tokens) = 2 THEN [ ok |-> TRUE, value |-> <<>> ]
  ELSE ParseElements(SubSeq(tokens, 2, Len(tokens) - 1))

\* typeof item.embedding === "string" ? JSON.parse(item.embedding) : item.embedding
ParseEmbedding(embedding) ==
  IF embedding.type = "string" THEN JSONParse(embedding.text)
  ELSE [ ok |-> TRUE, value |-> embedding.value ]

\* chapter_limit || Infinity: null and 0 are falsy and become Infinity.
\* [inf, n] stands for Infinity when inf, else for n.
LimitOrInfinity(chapter_limit) ==
  IF chapter_limit = NullNum \/ chapter_limit[1] = 0
    THEN [ inf |-> TRUE, n |-> 0 ]
    ELSE [ inf |-> FALSE, n |-> chapter_limit[1] ]

\* chapter?.order <= (chapter_limit || Infinity)
WithinLimit(chapter, chapter_limit) ==
  LET bound == LimitOrInfinity(chapter_limit)
  IN  bound.inf \/ chapter.order <= bound.n

\* The forEach over the fetched rows: the first row whose text does not parse
\* throws; rows within the limit are pushed in row order.
RECURSIVE FilterRows(_, _)
FilterRows(rows, chapter_limit) ==
  IF rows = <<>> THEN [ ok |-> TRUE, items |-> <<>> ]
  ELSE LET parsed == ParseEmbedding(Head(rows).embedding)
           chapter == Head(rows).chapters
       IN  IF ~parsed.ok THEN [ ok |-> FALSE, items |-> <<>> ]
           ELSE LET rest == FilterRows(Tail(rows), chapter_limit)
                IN  IF ~rest.ok THEN rest
                    ELSE IF WithinLimit(chapter, chapter_limit)
                      THEN [ ok |-> TRUE,
                             items |-> <<[ chapter |-> chapter,
                                           embedding |-> parsed.value ]>> \o rest.items ]
                      ELSE rest

\* A similarity dot / (magA * magB) is kept exactly as [nan, num, den]: it is
\* num / sqrt(den) with den = |vecA|^2 * |vecB|^2, or NaN (0 / 0, or a product
\* with a missing component of vecB).
Dot(vecA, vecB) == SeqSum([ i \in 1..Len(vecA) |-> vecA[i] * vecB[i] ])
SquaredNorm(vec) == SeqSum([ i \in 1..Len(vec) |-> vec[i] * vec[i] ])

cosineSimilarity(vecA, vecB) ==
  LET den == SquaredNorm(vecA) * SquaredNorm(vecB)
  IN  IF Len(vecB) < Len(vecA) \/ den = 0
        THEN [ nan |-> TRUE, num |-> 0, den |-> 1 ]
        ELSE [ nan |-> FALSE, num |-> Dot(vecA, vecB), den |-> den ]

\* Sign of x - y for two similarities; NaN - y and x - NaN are NaN, which a
\* sort comparator treats as 0.
SimilarityDiff(x, y) ==
  IF x.nan \/ y.nan THEN 0
  ELSE LET l == x.num * Abs(x.num) * y.den
           r == y.num * Abs(y.num) * x.den
       IN  IF l > r THEN 1 ELSE IF l < r THEN -1 ELSE 0

\* chaptersWithEmbeddings.map(...): the scored candidates.
ScoreChapters(items, questionEmbedding) ==
  [ i \in 1..Len(items) |->
      [ id |-> items[i].chapter.id,
        name |-> items[i].chapter.name,
        order |-> items[i].chapter.order,
        content |-> items[i].chapter.content,
        title_id |-> items[i].chapter.title_id,
        similarity |-> cosineSimilarity(questionEmbedding, items[i].embedding) ] ]

\* Array.prototype.sort is stable: x goes before the first element it
\* compares strictly less than. Cmp(a, b) < 0 means a sorts before b.
BySimilarityDesc(a, b) == SimilarityDiff(b.similarity, a.similarity)
ByOrderAsc(a, b) == IF a.order < b.order THEN -1 ELSE IF a.order > b.order THEN 1 ELSE 0

Compare(key, a, b) ==
  IF key = "similarity" THEN BySimilarityDesc(a, b) ELSE ByOrderAsc(a, b)

RECURSIVE InsertSorted(_, _, _)
InsertSorted(x, sorted, key) ==
  IF sorted = <<>> THEN <<x>>
  ELSE IF Compare(key, x, Head(sorted)) < 0 THEN <<x>> \o sorted
  ELSE <<Head(sorted)>> \o InsertSorted(x, Tail(sorted), key)

RECURSIVE StableSort(_, _)
StableSort(s, key) ==
  IF s = <<>> THEN <<>>
  ELSE InsertSorted(s[Len(s)], StableSort(SubSeq(s, 1, Len(s) - 1), key), key)

\* .sort((a, b) => b.similarity - a.similarity).slice(0, 5)
SelectRelevant(chaptersWithScores) ==
  LET sorted == StableSort(chaptersWithScores, "similarity")
  IN  SubSeq(sorted, 1, Min(TopK, Len(sorted)))

\* What the sort and slice may leave in relevantChapters. A NaN similarity
\* makes the comparator inconsistent (NaN compares as 0 with everything), and
\* the order such a sort produces is implementation-defined: any
\* min(5, n) of the candidates may come first.
RelevantOutcomes(chaptersWithScores) ==
  LET n == Len(chaptersWithScores)
      Pick(S) == LET Test(c) == \E i \in S : chaptersWithScores[i] = c
                 IN  SelectSeq(chaptersWithScores, Test)
  IN  IF \E i \in 1..n : chaptersWithScores[i].similarity.nan
        THEN { Pick(S) : S \in { T \in SUBSET (1..n) : Cardinality(T) = Min(TopK, n) } }
        ELSE { SelectRelevant(chaptersWithScores) }

\* `Chapter ${chapter.order}: ${chapterName}\n${chapterContent}`
RenderChapter(chapter) ==
  LET chapterName == IF chapter.name \in {"", NULL}
                       THEN "Chapter " \o ToString(chapter.order)
                       ELSE chapter.name
      chapterContent == IF chapter.content \in {"", NULL} THEN "" ELSE chapter.content
  IN  "Chapter " \o ToString(chapter.order) \o ": " \o chapterName \o "\n" \o chapterContent

RECURSIVE Join(_, _)
Join(strings, sep) ==
  IF strings = <<>> THEN ""
  ELSE IF Len(strings) = 1 THEN Head(strings)
  ELSE Head(strings) \o sep \o Join(Tail(strings), sep)

\* Variant of ContextChapters with a defect: the selection is left in its
\* similarity ranking.
ContextChapters_Unsorted(relevantChapters) == relevantChapters

\* relevantChapters.sort((a, b) => a.order - b.order): the chapters of the
\* context, in the order they are rendered.
ContextChapters(relevantChapters) == StableSort(relevantChapters, "order")

\* ...map(render).join("\n\n")
ContextText(relevantChapters) ==
  LET ordered == ContextChapters(relevantChapters)
  IN  Join([ i \in 1..Len(ordered) |-> RenderChapter(ordered[i]) ], "\n\n")

-----------------------------------------------------------------------------
(* questionsService: every method wraps its store call in try/catch and    *)
(* returns { success, data?, error? }; none of them throws.                *)

\* What a store call may do: answer, answer with an error, or throw.
DbOutcomes == {"ok", "error", "exception"}

\* .from('questions').select(...).eq('id', questionId).single()
getQuestionById(rows, questionId, db) ==
  IF db = "ok" /\ questionId \in DOMAIN rows
    THEN [ success |-> TRUE, data |-> <<rows[questionId]>>, threw |-> FALSE ]
    ELSE [ success |-> FALSE, data |-> <<>>, threw |-> FALSE ]

\* Variants of updateQuestionStatus with a defect: without its try/catch, so
\* that a throwing store call leaves the method as an exception; and as an
\* upsert, which creates the row it does not find.
updateQuestionStatus_NoTryCatch(rows, questionId, status, db) ==
  IF db = "ok" /\ questionId \in DOMAIN rows
    THEN [ rows |-> [ rows EXCEPT ![questionId].status = status ],
           success |-> TRUE, threw |-> FALSE ]
    ELSE [ rows |-> rows, success |-> FALSE, threw |-> db = "exception" ]

updateQuestionStatus_Upsert(rows, questionId, status, db) ==
  IF db # "ok" THEN [ rows |-> rows, success |-> FALSE, threw |-> FALSE ]
  ELSE IF questionId \in DOMAIN rows
    THEN [ rows |-> [ rows EXCEPT ![questionId].status = status ],
           success |-> TRUE, threw |-> FALSE ]
    ELSE [ rows |-> [ q \in DOMAIN rows \cup {questionId} |->
                        IF q \in DOMAIN rows THEN rows[q]
                        ELSE [ user_id |-> NULL, title_id |-> NULL,
                               chapter_limit |-> NullNum, question_text |-> NULL,
                               answer_text |-> NULL, status |-> status ] ],
           success |-> TRUE, threw |-> FALSE ]

\* Variant of updateQuestionStatus with a defect: the update without its
\* .eq('id', questionId) filter, which touches every row.
updateQuestionStatus_AllRows(rows, questionId, status, db) ==
  IF db = "ok" /\ questionId \in DOMAIN rows
    THEN [ rows |-> [ q \in DOMAIN rows |-> [ rows[q] EXCEPT !.status = status ] ],
           success |-> TRUE, threw |-> FALSE ]
    ELSE [ rows |-> rows, success |-> FALSE, threw |-> FALSE ]

\* .update({ status, updated_at }).eq('id', questionId).select().single()
updateQuestionStatus(rows, questionId, status, db) ==
  IF db = "ok" /\ questionId \in DOMAIN rows
    THEN [ rows |-> [ rows EXCEPT ![questionId].status = status ],
           success |-> TRUE, threw |-> FALSE ]
    ELSE [ rows |-> rows, success |-> FALSE, threw |-> FALSE ]

\* Variant of updateQuestionAnswer with a defect: the answer is appended to
\* the answer the row holds.
updateQuestionAnswer_Appends(rows, questionId, answerText, db) ==
  IF db = "ok" /\ questionId \in DOMAIN rows
    THEN [ rows |-> [ rows EXCEPT
                        ![questionId].answer_text =
                          IF rows[questionId].answer_text = NULL THEN answerText
                          ELSE rows[questionId].answer_text \o answerText,
                        ![questionId].status = "answered" ],
           success |-> TRUE, threw |-> FALSE ]
    ELSE [ rows |-> rows, success |-> FALSE, threw |-> FALSE ]

\* .update({ answer_text, status: 'answered', updated_at }).eq('id', questionId)
updateQuestionAnswer(rows, questionId, answerText, db) ==
  IF db = "ok" /\ questionId \in DOMAIN rows
    THEN [ rows |-> [ rows EXCEPT ![questionId].answer_text = answerText,
                                  ![questionId].status = "answered" ],
           success |-> TRUE, threw |-> FALSE ]
    ELSE [ rows |-> rows, success |-> FALSE, threw |-> FALSE ]

-----------------------------------------------------------------------------
(* State *)

\* Error messages of generateAnswer
ErrQuestionNotFound == "Question not found"
ErrFetchEmbeddings == "Failed to fetch chapter embeddings"
ErrInvalidEmbedding == "Invalid embedding format in DB"
ErrNoChapters == "No chapters available within chapter limit"
ErrNoQuestionText == "Question text is null or empty"
ErrEmbeddingProvider == "Failed to generate embedding using Hugging Face"
ErrNoRelevant == "No relevant chapters found based on semantic similarity."
ErrProvider == "chat.completions.create rejected"
ErrNoAnswer == "No answer generated by AI"
ErrStatusWrite == "Failed to update question status"
\* the rejection of a store call that generateAnswer awaits itself
ErrStore == "chapter_embeddings select rejected"

\* Locals of an idle request slot. invocation (the number of the request),
\* calls (the awaited calls made so far, with whether each succeeded), result
\* (what generateAnswer returned or threw) and before (the questions table
\* when the request arrived) record the run; route, body and response are
\* the request and the HTTP status of the routes on a stored question.
IdleRun ==
  [ invocation |-> 0,
    requester |-> NULL,
    questionId |-> NULL,
    title_id |-> NULL,
    chapter_limit |-> NullNum,
    question_text |-> NULL,
    chaptersWithEmbeddings |-> <<>>,
    questionEmbedding |-> <<>>,
    relevantChapters |-> <<>>,
    contextText |-> "",
    prompt |-> "",
    answer |-> NULL,
    error |-> NULL,
    calls |-> <<>>,
    result |-> NULL,
    before |-> <<>>,
    route |-> NULL,
    body |-> <<>>,
    response |-> 0 ]

Call(op, ok) == [ op |-> op, ok |-> ok ]

\* A stored question row.
QuestionRow(user, limit) ==
  [ user_id |-> user,
    title_id |-> "t1",
    chapter_limit |-> limit,
    question_text |-> "who?",
    answer_text |-> NULL,
    status |-> "pending" ]

\* q1 belongs to u1 and holds any of the limits; q2 belongs to u2 and has
\* no question_text (Row.question_text: string | null).
Init ==
  /\ \E limit \in ChapterLimits :
       questions = [ q \in QuestionIds |->
                       IF q = "q1" THEN QuestionRow("u1", limit)
                       ELSE [ QuestionRow("u2", Num(2)) EXCEPT !.question_text = NULL ] ]
  /\ chapter_embeddings \in EmbeddingTables
  /\ pc = [ r \in Runs |-> "idle" ]
  /\ run = [ r \in Runs |-> IdleRun ]
  /\ invocations = 0
  /\ lastWriter = [ q \in QuestionIds |-> 0 ]

-----------------------------------------------------------------------------
(* POST /api/questions/:id/answer and aiService.generateAnswer *)

\* The route handler: authenticateUser passed, generateAnswer(req.params.id) starts.
PostAnswer(r) ==
  /\ pc[r] = "idle"
  /\ invocations < MaxInvocations
  /\ \E user \in Users, id \in RequestIds :
       run' = [ run EXCEPT ![r] = [ IdleRun EXCEPT !.invocation = invocations + 1,
                                                   !.requester = user,
                                                   !.questionId = id,
                                                   !.before = questions ] ]
  /\ invocations' = invocations + 1
  /\ pc' = [ pc EXCEPT ![r] = "getQuestion" ]
  /\ UNCHANGED <<questions, chapter_embeddings, lastWriter>>

\* The request of slot r is the last writer of its question when its write
\* took effect.
Written(writers, r, res) ==
  IF res.success THEN [ writers EXCEPT ![run[r].questionId] = run[r].invocation ]
  ELSE writers

\* throw inside the try block: control goes to the catch block.
Throw(r, calls, message) ==
  /\ run' = [ run EXCEPT ![r].calls = calls, ![r].error = message ]
  /\ pc' = [ pc EXCEPT ![r] = "catch" ]

\* Variant of GetQuestion with a defect: a question that has failed is
\* refused.
GetQuestion_FailedIsFinal(r) ==
  /\ pc[r] = "getQuestion"
  /\ \E db \in DbOutcomes :
       LET questionResponse == getQuestionById(questions, run[r].questionId, db)
           calls == Append(run[r].calls, Call("getQuestionById", questionResponse.success))
       IN  IF ~questionResponse.success \/ questionResponse.data = <<>>
             THEN Throw(r, calls, ErrQuestionNotFound)
           ELSE IF questionResponse.data[1].status = "failed"
             THEN Throw(r, calls, "Question has failed")
             ELSE /\ run' = [ run EXCEPT
                       ![r].calls = calls,
                       ![r].title_id = questionResponse.data[1].title_id,
                       ![r].chapter_limit = questionResponse.data[1].chapter_limit,
                       ![r].question_text = questionResponse.data[1].question_text ]
                  /\ pc' = [ pc EXCEPT ![r] = "fetchEmbeddings" ]
  /\ UNCHANGED <<questions, chapter_embeddings, invocations, lastWriter>>

\* await questionsService.getQuestionById(questionId), and the check after it.
GetQuestion(r) ==
  /\ pc[r] = "getQuestion"
  /\ \E db \in DbOutcomes :
       LET questionResponse == getQuestionById(questions, run[r].questionId, db)
           calls == Append(run[r].calls, Call("getQuestionById", questionResponse.success))
       IN  IF ~questionResponse.success \/ questionResponse.data = <<>>
             THEN Throw(r, calls, ErrQuestionNotFound)
             ELSE /\ run' = [ run EXCEPT
                       ![r].calls = calls,
                       ![r].title_id = questionResponse.data[1].title_id,
                       ![r].chapter_limit = questionResponse.data[1].chapter_limit,
                       ![r].question_text = questionResponse.data[1].question_text ]
                  /\ pc' = [ pc EXCEPT ![r] = "fetchEmbeddings" ]
  /\ UNCHANGED <<questions, chapter_embeddings, invocations, lastWriter>>

\* Orders in which the store may return the rows (the query has no ORDER BY).
RowOrders(rows) == { rows, Reverse(rows) }

\* Variant of FetchEmbeddings with a defect: without the check that the
\* filter left a chapter.
FetchEmbeddings_NoEmptyCheck(r) ==
  /\ pc[r] = "fetchEmbeddings"
  /\ \E db \in DbOutcomes,
        embeddingsData \in RowOrders(RowsOfTitle(chapter_embeddings, run[r].title_id)) :
       LET failed == db # "ok" \/ embeddingsData = <<>>
           calls == Append(run[r].calls, Call("selectChapterEmbeddings", db = "ok"))
           filtered == FilterRows(embeddingsData, run[r].chapter_limit)
       IN  IF db = "exception" THEN Throw(r, calls, ErrStore)
           ELSE IF failed THEN Throw(r, calls, ErrFetchEmbeddings)
           ELSE IF ~filtered.ok THEN Throw(r, calls, ErrInvalidEmbedding)
           ELSE IF run[r].question_text \in {"", NULL} THEN Throw(r, calls, ErrNoQuestionText)
           ELSE /\ run' = [ run EXCEPT ![r].calls = calls,
                                       ![r].chaptersWithEmbeddings = filtered.items ]
                /\ pc' = [ pc EXCEPT ![r] = "getEmbedding" ]
  /\ UNCHANGED <<questions, chapter_embeddings, invocations, lastWriter>>

\* await supabase.from("chapter_embeddings").select(...), the forEach that
\* parses and filters, and the checks up to the next await.
FetchEmbeddings(r) ==
  /\ pc[r] = "fetchEmbeddings"
  /\ \E db \in DbOutcomes,
        embeddingsData \in RowOrders(RowsOfTitle(chapter_embeddings, run[r].title_id)) :
       LET failed == db # "ok" \/ embeddingsData = <<>>
           calls == Append(run[r].calls, Call("selectChapterEmbeddings", db = "ok"))
           filtered == FilterRows(embeddingsData, run[r].chapter_limit)
       IN  IF db = "exception" THEN Throw(r, calls, ErrStore)
           ELSE IF failed THEN Throw(r, calls, ErrFetchEmbeddings)
           ELSE IF ~filtered.ok THEN Throw(r, calls, ErrInvalidEmbedding)
           ELSE IF Len(filtered.items) = 0 THEN Throw(r, calls, ErrNoChapters)
           ELSE IF run[r].question_text \in {"", NULL} THEN Throw(r, calls, ErrNoQuestionText)
           ELSE /\ run' = [ run EXCEPT ![r].calls = calls,
                                       ![r].chaptersWithEmbeddings = filtered.items ]
                /\ pc' = [ pc EXCEPT ![r] = "getEmbedding" ]
  /\ UNCHANGED <<questions, chapter_embeddings, invocations, lastWriter>>

\* The prompt template, by its three interpolations (chapter_limit || "limit").
Prompt(contextText, question_text, chapter_limit) ==
  "### Available Chapters (selected based on relevance):\n" \o contextText
  \o "\n\n### Question:\n" \o question_text
  \o "\n\n### Notes:\n- Avoid spoilers from content beyond Chapter "
  \o (IF LimitOrInfinity(chapter_limit).inf THEN "limit"
      ELSE ToString(chapter_limit[1]))

\* Variant of GetEmbedding with a defect: a failed provider call is made a
\* second time before the run gives up.
GetEmbedding_Retries(r) ==
  /\ pc[r] = "getEmbedding"
  /\ \/ /\ ~\E i \in 1..Len(run[r].calls) : run[r].calls[i].op = "getEmbedding"
        /\ run' = [ run EXCEPT ![r].calls = Append(@, Call("getEmbedding", FALSE)) ]
        /\ pc' = pc
     \/ Throw(r, Append(run[r].calls, Call("getEmbedding", FALSE)), ErrEmbeddingProvider)
     \/ \E questionEmbedding \in QuestionVectors :
         \E relevantChapters \in
              RelevantOutcomes(ScoreChapters(run[r].chaptersWithEmbeddings,
                                             questionEmbedding)) :
          LET calls == Append(run[r].calls, Call("getEmbedding", TRUE))
          IN  IF Len(relevantChapters) = 0 THEN Throw(r, calls, ErrNoRelevant)
              ELSE /\ run' = [ run EXCEPT
                        ![r].calls = calls,
                        ![r].chaptersWithEmbeddings = <<>>,
                        ![r].questionEmbedding = questionEmbedding,
                        ![r].relevantChapters = ContextChapters(relevantChapters),
                        ![r].contextText = ContextText(relevantChapters),
                        ![r].prompt = Prompt(ContextText(relevantChapters),
                                             run[r].question_text,
                                             run[r].chapter_limit) ]
                   /\ pc' = [ pc EXCEPT ![r] = "setPending" ]
  /\ UNCHANGED <<questions, chapter_embeddings, invocations, lastWriter>>

\* await getEmbedding(question_text), then scoring, selection and the context.
\* The second sort is in place, so relevantChapters ends in chapter order;
\* chaptersWithEmbeddings is not read again.
GetEmbedding(r) ==
  /\ pc[r] = "getEmbedding"
  /\ \/ Throw(r, Append(run[r].calls, Call("getEmbedding", FALSE)), ErrEmbeddingProvider)
     \/ \E questionEmbedding \in QuestionVectors :
         \E relevantChapters \in
              RelevantOutcomes(ScoreChapters(run[r].chaptersWithEmbeddings,
                                             questionEmbedding)) :
          LET calls == Append(run[r].calls, Call("getEmbedding", TRUE))
          IN  IF Len(relevantChapters) = 0 THEN Throw(r, calls, ErrNoRelevant)
              ELSE /\ run' = [ run EXCEPT
                        ![r].calls = calls,
                        ![r].chaptersWithEmbeddings = <<>>,
                        ![r].questionEmbedding = questionEmbedding,
                        ![r].relevantChapters = ContextChapters(relevantChapters),
                        ![r].contextText = ContextText(relevantChapters),
                        ![r].prompt = Prompt(ContextText(relevantChapters),
                                             run[r].question_text,
                                             run[r].chapter_limit) ]
                   /\ pc' = [ pc EXCEPT ![r] = "setPending" ]
  /\ UNCHANGED <<questions, chapter_embeddings, invocations, lastWriter>>

\* Variant of SetPending with a defect: the status write is left out.
SetPending_Skipped(r) ==
  /\ pc[r] = "setPending"
  /\ pc' = [ pc EXCEPT ![r] = "generate" ]
  /\ UNCHANGED <<questions, run, chapter_embeddings, invocations, lastWriter>>

\* Variant of SetPending with a per-question lock: the write waits while
\* another run on the same question is past its own pending write.
SetPending_Locked(r) ==
  /\ pc[r] = "setPending"
  /\ \A o \in Runs \ {r} :
       ~(/\ run[o].questionId = run[r].questionId
         /\ pc[o] \in {"generate", "saveAnswer", "setAnswered", "catch"}
         /\ \E i \in 1..Len(run[o].calls) :
              run[o].calls[i].op = "updateQuestionStatus:pending")
  /\ \E db \in DbOutcomes :
       LET res == updateQuestionStatus(questions, run[r].questionId, "pending", db)
           calls == Append(run[r].calls, Call("updateQuestionStatus:pending", res.success))
       IN  /\ questions' = res.rows
           /\ lastWriter' = Written(lastWriter, r, res)
           /\ IF res.threw THEN Throw(r, calls, ErrStatusWrite)
              ELSE /\ run' = [ run EXCEPT ![r].calls = calls ]
                   /\ pc' = [ pc EXCEPT ![r] = "generate" ]
  /\ UNCHANGED <<chapter_embeddings, invocations>>

\* await questionsService.updateQuestionStatus(questionId, "pending")
SetPending(r) ==
  /\ pc[r] = "setPending"
  /\ \E db \in DbOutcomes :
       LET res == updateQuestionStatus(questions, run[r].questionId, "pending", db)
           calls == Append(run[r].calls, Call("updateQuestionStatus:pending", res.success))
       IN  /\ questions' = res.rows
           /\ lastWriter' = Written(lastWriter, r, res)
           /\ IF res.threw THEN Throw(r, calls, ErrStatusWrite)
              ELSE /\ run' = [ run EXCEPT ![r].calls = calls ]
                   /\ pc' = [ pc EXCEPT ![r] = "generate" ]
  /\ UNCHANGED <<chapter_embeddings, invocations>>

\* What response.choices[0]?.message?.content may be: a text, "" or missing.
Completions == Answers \cup {"", NULL}

\* Variant of EmptyAnswer with a defect: only a missing content is caught.
EmptyAnswer_MissingOnly(answer) == answer = NULL

\* if (!answer)
EmptyAnswer(answer) == answer \in {"", NULL}

\* await openai.chat.completions.create(...) with the prompt built from
\* contextText, and the check of the answer.
Generate(r) ==
  /\ pc[r] = "generate"
  /\ \/ Throw(r, Append(run[r].calls, Call("chat.completions.create", FALSE)), ErrProvider)
     \/ \E answer \in Completions :
          LET calls == Append(run[r].calls, Call("chat.completions.create", TRUE))
          IN  /\ run' = [ run EXCEPT
                    ![r].calls = calls,
                    ![r].answer = answer,
                    ![r].error = IF EmptyAnswer(answer) THEN ErrNoAnswer ELSE run[r].error ]
              /\ pc' = [ pc EXCEPT ![r] = IF EmptyAnswer(answer) THEN "catch"
                                                                 ELSE "saveAnswer" ]
  /\ UNCHANGED <<questions, chapter_embeddings, invocations, lastWriter>>

\* await questionsService.updateQuestionAnswer(questionId, answer); the
\* response is not looked at.
SaveAnswer(r) ==
  /\ pc[r] = "saveAnswer"
  /\ \E db \in DbOutcomes :
       LET res == updateQuestionAnswer(questions, run[r].questionId, run[r].answer, db)
           calls == Append(run[r].calls, Call("updateQuestionAnswer", res.success))
       IN  /\ questions' = res.rows
           /\ lastWriter' = Written(lastWriter, r, res)
           /\ IF res.threw THEN Throw(r, calls, "Failed to update question answer")
              ELSE /\ run' = [ run EXCEPT ![r].calls = calls ]
                   /\ pc' = [ pc EXCEPT ![r] = "setAnswered" ]
  /\ UNCHANGED <<chapter_embeddings, invocations>>

\* await questionsService.updateQuestionStatus(questionId, "answered"); return answer
SetAnswered(r) ==
  /\ pc[r] = "setAnswered"
  /\ \E db \in DbOutcomes :
       LET res == updateQuestionStatus(questions, run[r].questionId, "answered", db)
           calls == Append(run[r].calls, Call("updateQuestionStatus:answered", res.success))
       IN  /\ questions' = res.rows
           /\ lastWriter' = Written(lastWriter, r, res)
           /\ IF res.threw THEN Throw(r, calls, ErrStatusWrite)
              ELSE /\ run' = [ run EXCEPT ![r].calls = calls,
                                          ![r].result = run[r].answer ]
                   /\ pc' = [ pc EXCEPT ![r] = "returned" ]
  /\ UNCHANGED <<chapter_embeddings, invocations>>

\* Variant of Catch with a defect: a new error is thrown in place of the
\* caught one.
Catch_Wrapped(r) ==
  /\ pc[r] = "catch"
  /\ \E db \in DbOutcomes :
       LET res == updateQuestionStatus(questions, run[r].questionId, "failed", db)
           calls == Append(run[r].calls, Call("updateQuestionStatus:failed", res.success))
       IN  /\ questions' = res.rows
           /\ lastWriter' = Written(lastWriter, r, res)
           /\ run' = [ run EXCEPT ![r].calls = calls,
                                   ![r].result = "AI service error" ]
           /\ pc' = [ pc EXCEPT ![r] = "thrown" ]
  /\ UNCHANGED <<chapter_embeddings, invocations>>

\* Variant of Catch with a defect: the write of status failed also clears
\* the stored answer.
Catch_ClearsAnswer(r) ==
  /\ pc[r] = "catch"
  /\ \E db \in DbOutcomes :
       LET res == updateQuestionStatus(questions, run[r].questionId, "failed", db)
           calls == Append(run[r].calls, Call("updateQuestionStatus:failed", res.success))
       IN  /\ questions' =
                IF res.success /\ run[r].questionId \in DOMAIN res.rows
                  THEN [ res.rows EXCEPT ![run[r].questionId].answer_text = NULL ]
                  ELSE res.rows
           /\ lastWriter' = Written(lastWriter, r, res)
           /\ run' = [ run EXCEPT ![r].calls = calls, ![r].result = run[r].error ]
           /\ pc' = [ pc EXCEPT ![r] = "thrown" ]
  /\ UNCHANGED <<chapter_embeddings, invocations>>

\* catch (error) { await updateQuestionStatus(questionId, "failed"); throw error; }
\* The await is not guarded: were it to throw, that error would leave the
\* function instead of the caught one.
Catch(r) ==
  /\ pc[r] = "catch"
  /\ \E db \in DbOutcomes :
       LET res == updateQuestionStatus(questions, run[r].questionId, "failed", db)
           calls == Append(run[r].calls, Call("updateQuestionStatus:failed", res.success))
       IN  /\ questions' = res.rows
           /\ lastWriter' = Written(lastWriter, r, res)
           /\ run' = [ run EXCEPT
                ![r].calls = calls,
                ![r].result = IF res.threw THEN ErrStatusWrite ELSE run[r].error ]
           /\ pc' = [ pc EXCEPT ![r] = "thrown" ]
  /\ UNCHANGED <<chapter_embeddings, invocations>>

\* The route handler answers: 200 { success, answer } or 500 { error.message }.
Respond(r) ==
  /\ pc[r] \in {"returned", "thrown", "responded"}
  /\ pc' = [ pc EXCEPT ![r] = "idle" ]
  /\ run' = [ run EXCEPT ![r] = IdleRun ]
  /\ UNCHANGED <<questions, chapter_embeddings, invocations, lastWriter>>

Step(r) ==
  \/ PostAnswer(r)
  \/ GetQuestion(r)
  \/ FetchEmbeddings(r)
  \/ GetEmbedding(r)
  \/ SetPending(r)
  \/ Generate(r)
  \/ SaveAnswer(r)
  \/ SetAnswered(r)
  \/ Catch(r)
  \/ Respond(r)

\* Requests served one at a time, over every stored table and limit.
Next == \E r \in {"r1"} : Step(r)

Spec == Init /\ [][Next]_vars

\* Two requests in flight at once (the handlers are async: at every await
\* another request may run), over well-formed chapters and embeddings.
ConcurrentInit ==
  /\ questions = [ q \in QuestionIds |->
                     QuestionRow(IF q = "q1" THEN "u1" ELSE "u2", Num(2)) ]
  /\ chapter_embeddings = MixedTable
  /\ pc = [ r \in Runs |-> "idle" ]
  /\ run = [ r \in Runs |-> IdleRun ]
  /\ invocations = 0
  /\ lastWriter = [ q \in QuestionIds |-> 0 ]

ConcurrentNext == \E r \in Runs : Step(r)

ConcurrentSpec == ConcurrentInit /\ [][ConcurrentNext]_vars

-----------------------------------------------------------------------------
(* POST /api/questions, PUT /api/questions/:questionId/answer,             *)
(* PUT /api/questions/:questionId/status, DELETE /api/questions/:questionId *)

\* total number of requests to these routes in one behaviour
MaxRequests == 2

\* JSON values of a request body
JNumber(num, den) == [ type |-> "number", num |-> num, den |-> den, text |-> "" ]
JString(text) == [ type |-> "string", num |-> 0, den |-> 1, text |-> text ]
JNull == [ type |-> "null", num |-> 0, den |-> 1, text |-> "" ]

\* { ...a, ...b }: the keys of b override those of a
Spread(a, b) ==
  [ k \in DOMAIN a \cup DOMAIN b |-> IF k \in DOMAIN b THEN b[k] ELSE a[k] ]

\* Joi.string().uuid(): ids and title ids are uuids, NotUuid is not
NotUuid == "not-a-uuid"
ParamIds == RequestIds \cup {NotUuid}
IsUuid(text) == text # NotUuid

\* Joi.string().required(): a non-empty string
JoiString(body, key) ==
  key \in DOMAIN body /\ body[key].type = "string" /\ body[key].text # ""
\* Joi.number(): a number, or a string that converts to one (convert: true)
JoiNumber(value) ==
  IF value.type = "number" THEN [ ok |-> TRUE, num |-> value.num, den |-> value.den ]
  ELSE IF value.type = "string" /\ value.text \in DOMAIN NumberTokens
    THEN [ ok |-> TRUE, num |-> NumberTokens[value.text], den |-> 1 ]
  ELSE [ ok |-> FALSE, num |-> 0, den |-> 1 ]

\* Variant of UnknownKeys with a defect: the schema lets unknown keys pass
\* (.unknown(true)).
UnknownKeys_Allowed(body, keys) == {}

\* Joi.object({...}): keys the schema does not name are not allowed
UnknownKeys(body, keys) == DOMAIN body \ keys

\* createQuestionSchema.validate(req.body): TRUE when there is no error
createQuestionSchema(body) ==
  /\ UnknownKeys(body, {"title_id", "question_text", "chapter_limit"}) = {}
  /\ JoiString(body, "title_id") /\ IsUuid(body["title_id"].text)
  /\ JoiString(body, "question_text")
  /\ "chapter_limit" \in DOMAIN body
  /\ LET n == JoiNumber(body["chapter_limit"])
     IN  n.ok /\ n.den = 1 /\ n.num >= 1
\* updateAnswerSchema.validate(req.body)
updateAnswerSchema(body) ==
  UnknownKeys(body, {"answer_text"}) = {} /\ JoiString(body, "answer_text")
\* updateStatusSchema.validate(req.body)
updateStatusSchema(body) ==
  /\ UnknownKeys(body, {"status"}) = {}
  /\ JoiString(body, "status") /\ body["status"].text \in Statuses

\* Request bodies of POST /api/questions
LimitValues ==
  { JNumber(1, 1), JNumber(2, 1), JNumber(0, 1), JNumber(-1, 1), JNumber(3, 2),
    JString("2"), JString("many"), JNull }
BodyWithoutLimit == [ title_id |-> JString("t1"), question_text |-> JString("who?") ]
ValidBody == Spread(BodyWithoutLimit, [ chapter_limit |-> JNumber(2, 1) ])
CreateBodies ==
  { Spread(BodyWithoutLimit, [ chapter_limit |-> limit ]) : limit \in LimitValues }
    \cup { BodyWithoutLimit }
    \cup { Spread(ValidBody, [ user_id |-> JString(user) ]) : user \in Users }
    \cup { Spread(ValidBody, [ status |-> JString("answered") ]),
           Spread(ValidBody, [ title_id |-> JString(NotUuid) ]),
           Spread(ValidBody, [ question_text |-> JNull ]) }
\* Request bodies of PUT .../answer and PUT .../status
AnswerBodies ==
  { [ answer_text |-> JString(answer) ] : answer \in Answers \cup {""} }
    \cup { [ answer_text |-> JNull ], [ answer |-> JString("a1") ] }
StatusBodies ==
  { [ status |-> JString(status) ] : status \in Statuses \cup {"done"} }
    \cup { [ state |-> JString("failed") ] }

\* The value a column of table "questions" takes from a JSON value: text
\* columns take the string, the chapter_limit column the number.
TextColumn(value) == IF value.type = "string" THEN value.text ELSE NULL
NumberColumn(value) ==
  LET n == JoiNumber(value) IN IF n.ok /\ n.den = 1 THEN Num(n.num) ELSE NullNum

\* .from('questions').insert({ ...questionData, status: 'pending' }).select().single()
createQuestion(rows, id, questionData, db) ==
  LET inserted == Spread(questionData, [ status |-> JString("pending") ])
      row == [ user_id |-> TextColumn(inserted["user_id"]),
               title_id |-> TextColumn(inserted["title_id"]),
               chapter_limit |-> NumberColumn(inserted["chapter_limit"]),
               question_text |-> TextColumn(inserted["question_text"]),
               answer_text |-> NULL,
               status |-> TextColumn(inserted["status"]) ]
  IN  IF db = "ok"
        THEN [ rows |-> [ q \in DOMAIN rows \cup {id} |-> IF q = id THEN row ELSE rows[q] ],
               success |-> TRUE, threw |-> FALSE ]
        ELSE [ rows |-> rows, success |-> FALSE, threw |-> FALSE ]

\* .from('questions').delete().eq('id', questionId): deleting no row is no error
deleteQuestion(rows, questionId, db) ==
  IF db = "ok"
    THEN [ rows |-> [ q \in DOMAIN rows \ {questionId} |-> rows[q] ],
           success |-> TRUE, threw |-> FALSE ]
    ELSE [ rows |-> rows, success |-> FALSE, threw |-> FALSE ]

\* the id the store gives the row of request number n
NewId(n) == "n" \o ToString(n)

\* Variant of Owns with a defect: the ownership check is left out.
Owns_Anyone(questionResult, user) == TRUE

\* questionResult.data?.user_id !== user.id is false
Owns(questionResult, user) == questionResult.data[1].user_id = user

\* The request of slot r as it arrives.
Request(r, route, user, questionId, body) ==
  [ IdleRun EXCEPT !.invocation = invocations + 1,
                   !.route = route,
                   !.requester = user,
                   !.questionId = questionId,
                   !.body = body,
                   !.before = questions ]

\* return res.status(code).json(...)
Answer(r, request, calls, code) ==
  /\ run' = [ run EXCEPT ![r] = [ request EXCEPT !.calls = calls, !.response = code ] ]
  /\ pc' = [ pc EXCEPT ![r] = "responded" ]

\* router.post("/"): validation, then createQuestion with the user's id
CreateQuestion(r) ==
  /\ pc[r] = "idle"
  /\ invocations < MaxRequests
  /\ \E user \in Users, body \in CreateBodies, db \in DbOutcomes :
       LET request == Request(r, "POST /", user, NULL, body)
           questionData == Spread([ user_id |-> JString(user) ], body)
           result == createQuestion(questions, NewId(invocations + 1), questionData, db)
       IN  IF ~createQuestionSchema(body)
             THEN /\ Answer(r, request, <<>>, 400)
                  /\ questions' = questions
             ELSE /\ Answer(r, request, <<Call("createQuestion", result.success)>>,
                            IF result.success THEN 201 ELSE 400)
                  /\ questions' = result.rows
  /\ invocations' = invocations + 1
  /\ UNCHANGED <<chapter_embeddings, lastWriter>>

\* The checks the three routes on a stored question share: the parameter
\* and the body (400), the question (404), its owner (403). 0 stands for
\* passing them all.
Refusal(questionId, validBody, questionResult, user) ==
  IF ~IsUuid(questionId) \/ ~validBody THEN 400
  ELSE IF ~questionResult.success THEN 404
  ELSE IF ~Owns(questionResult, user) THEN 403
  ELSE 0

\* the calls made up to a refusal
RefusalCalls(code, questionResult) ==
  IF code = 400 THEN <<>> ELSE <<Call("getQuestionById", questionResult.success)>>

\* router.put("/:questionId/answer")
PutAnswer(r) ==
  /\ pc[r] = "idle"
  /\ invocations < MaxRequests
  /\ \E user \in Users, questionId \in ParamIds, body \in AnswerBodies,
        load \in DbOutcomes, db \in DbOutcomes :
       LET request == Request(r, "PUT /:questionId/answer", user, questionId, body)
           questionResult == getQuestionById(questions, questionId, load)
           refusal == Refusal(questionId, updateAnswerSchema(body), questionResult, user)
           result == updateQuestionAnswer(questions, questionId,
                                          body["answer_text"].text, db)
       IN  IF refusal # 0
             THEN /\ Answer(r, request, RefusalCalls(refusal, questionResult), refusal)
                  /\ questions' = questions
             ELSE /\ Answer(r, request,
                            <<Call("getQuestionById", TRUE),
                              Call("updateQuestionAnswer", result.success)>>,
                            IF result.success THEN 200 ELSE 400)
                  /\ questions' = result.rows
  /\ invocations' = invocations + 1
  /\ UNCHANGED <<chapter_embeddings, lastWriter>>

\* router.put("/:questionId/status")
PutStatus(r) ==
  /\ pc[r] = "idle"
  /\ invocations < MaxRequests
  /\ \E user \in Users, questionId \in ParamIds, body \in StatusBodies,
        load \in DbOutcomes, db \in DbOutcomes :
       LET request == Request(r, "PUT /:questionId/status", user, questionId, body)
           questionResult == getQuestionById(questions, questionId, load)
           refusal == Refusal(questionId, updateStatusSchema(body), questionResult, user)
           result == updateQuestionStatus(questions, questionId, body["status"].text, db)
       IN  IF refusal # 0
             THEN /\ Answer(r, request, RefusalCalls(refusal, questionResult), refusal)
                  /\ questions' = questions
             ELSE /\ Answer(r, request,
                            <<Call("getQuestionById", TRUE),
                              Call("updateQuestionStatus", result.success)>>,
                            IF result.success THEN 200 ELSE 400)
                  /\ questions' = result.rows
  /\ invocations' = invocations + 1
  /\ UNCHANGED <<chapter_embeddings, lastWriter>>

\* router.delete("/:questionId")
DeleteQuestion(r) ==
  /\ pc[r] = "idle"
  /\ invocations < MaxRequests
  /\ \E user \in Users, questionId \in ParamIds, load \in DbOutcomes, db \in DbOutcomes :
       LET request == Request(r, "DELETE /:questionId", user, questionId, <<>>)
           questionResult == getQuestionById(questions, questionId, load)
           refusal == Refusal(questionId, TRUE, questionResult, user)
           result == deleteQuestion(questions, questionId, db)
       IN  IF refusal # 0
             THEN /\ Answer(r, request, RefusalCalls(refusal, questionResult), refusal)
                  /\ questions' = questions
             ELSE /\ Answer(r, request,
                            <<Call("getQuestionById", TRUE),
                              Call("deleteQuestion", result.success)>>,
                            IF result.success THEN 200 ELSE 400)
                  /\ questions' = result.rows
  /\ invocations' = invocations + 1
  /\ UNCHANGED <<chapter_embeddings, lastWriter>>

\* Stored questions: q1 of u1 in any status (answered with an answer), q2 of u2.
RouteInit ==
  /\ \E status \in Statuses :
       questions = [ q \in QuestionIds |->
                       IF q = "q1"
                         THEN [ QuestionRow("u1", Num(2)) EXCEPT
                                  !.status = status,
                                  !.answer_text = IF status = "answered" THEN "a1" ELSE NULL ]
                         ELSE QuestionRow("u2", Num(2)) ]
  /\ chapter_embeddings = NoRowsTable
  /\ pc = [ r \in Runs |-> "idle" ]
  /\ run = [ r \in Runs |-> IdleRun ]
  /\ invocations = 0
  /\ lastWriter = [ q \in QuestionIds |-> 0 ]

RouteStep(r) ==
  \/ CreateQuestion(r)
  \/ PutAnswer(r)
  \/ PutStatus(r)
  \/ DeleteQuestion(r)
  \/ Respond(r)

\* Requests to these routes served one at a time.
RouteNext == \E r \in {"r1"} : RouteStep(r)

RouteSpec == RouteInit /\ [][RouteNext]_vars

-----------------------------------------------------------------------------
(* Helpers of the properties *)

Active == { r \in Runs : pc[r] # "idle" }
Finished == { r \in Runs : pc[r] \in {"returned", "thrown"} }
Ops(r) == [ i \in 1..Len(run[r].calls) |-> run[r].calls[i].op ]
Made(r, op) == \E i \in 1..Len(run[r].calls) : run[r].calls[i].op = op
Succeeded(r, op) ==
  \E i \in 1..Len(run[r].calls) : run[r].calls[i].op = op /\ run[r].calls[i].ok
LastCall(r) == run[r].calls[Len(run[r].calls)]
\* the question row was loaded by the run
Loaded(r) == Succeeded(r, "getQuestionById")
\* chapter order o lies beyond a chapter_limit that is a number
Beyond(o, chapter_limit) == chapter_limit # NullNum /\ o > chapter_limit[1]
ChapterOrders(chapters) == { chapters[i].order : i \in 1..Len(chapters) }
CandidateOrders(r) ==
  { run[r].chaptersWithEmbeddings[i].chapter.order :
      i \in 1..Len(run[r].chaptersWithEmbeddings) }

-----------------------------------------------------------------------------
(* Claims *)

\* C1: in no run is a chapter whose order exceeds the question's
\* chapter_limit among the candidates, the selected chapters or the context
\* handed to the generation provider.
C1_SpoilerSafety ==
  \A r \in Runs :
    Loaded(r) =>
      /\ \A o \in CandidateOrders(r) : ~Beyond(o, run[r].chapter_limit)
      /\ \A o \in ChapterOrders(run[r].relevantChapters) : ~Beyond(o, run[r].chapter_limit)

\* C2: a run whose question has a null or non-positive chapter_limit
\* permits no chapter, never calls the generation provider and, once the
\* rows are read, fails with the no-chapters error.
LimitMissing(chapter_limit) == chapter_limit = NullNum \/ chapter_limit[1] <= 0

C2_FailsClosed ==
  \A r \in Runs :
    (Loaded(r) /\ LimitMissing(run[r].chapter_limit)) =>
      /\ CandidateOrders(r) = {}
      /\ run[r].relevantChapters = <<>>
      /\ ~Made(r, "chat.completions.create")
      /\ pc[r] \in {"fetchEmbeddings", "catch", "thrown"}
      /\ run[r].error \in {NULL, ErrStore, ErrFetchEmbeddings, ErrInvalidEmbedding,
                          ErrNoChapters}

\* C3 (as stated): in every run, each external call of the pipeline (the
\* chapter/embedding read, the embedding-provider call, the
\* generation-provider call) comes after a write of status pending.
ExternalCalls == {"selectChapterEmbeddings", "getEmbedding", "chat.completions.create"}

C3_PendingBeforeExternalCalls ==
  \A r \in Runs :
    \A i \in 1..Len(run[r].calls) :
      run[r].calls[i].op \in ExternalCalls =>
        \E j \in 1..(i - 1) : run[r].calls[j].op = "updateQuestionStatus:pending"

\* C3 (amended): the write of status pending comes after the
\* chapter/embedding read and the embedding-provider call and immediately
\* before the generation-provider call, whatever the prior status; the
\* generation provider is never called without it.
C3_PendingBeforeGeneration ==
  \A r \in Runs :
    \A i \in 1..Len(run[r].calls) :
      /\ run[r].calls[i].op = "chat.completions.create" =>
           i > 1 /\ run[r].calls[i - 1].op = "updateQuestionStatus:pending"
      /\ run[r].calls[i].op = "updateQuestionStatus:pending" =>
           SubSeq(Ops(r), 1, i - 1) =
             <<"getQuestionById", "selectChapterEmbeddings", "getEmbedding">>

\* a run on a question that was failed before has called the generation provider
C3_Witness ==
  \E r \in Runs :
    /\ Made(r, "chat.completions.create")
    /\ run[r].before[run[r].questionId].status = "failed"

\* C4 (as stated): a run whose question does not exist makes no
\* updateQuestionStatus or updateQuestionAnswer call and leaves every stored
\* question unchanged.
NotFound(r) ==
  /\ Made(r, "getQuestionById")
  /\ run[r].questionId \notin DOMAIN run[r].before

StatusWrites ==
  { "updateQuestionStatus:pending", "updateQuestionStatus:answered",
    "updateQuestionStatus:failed", "updateQuestionAnswer" }

C4_NoStatusWriteOnNotFound ==
  \A r \in Runs :
    NotFound(r) =>
      /\ \A op \in StatusWrites : ~Made(r, op)
      /\ questions = run[r].before

\* C4 (amended): a run whose question does not exist aborts after the load
\* with the not-found error; the only write it issues is the catch block's
\* updateQuestionStatus(id, "failed"), which matches no row, so every stored
\* question is unchanged.
C4_NotFoundChangesNoRow ==
  \A r \in Runs :
    NotFound(r) =>
      /\ pc[r] \in {"catch", "thrown"}
      /\ run[r].error = ErrQuestionNotFound
      /\ questions = run[r].before
      /\ pc[r] = "catch" => Ops(r) = <<"getQuestionById">>
      /\ pc[r] = "thrown" =>
           /\ Ops(r) = <<"getQuestionById", "updateQuestionStatus:failed">>
           /\ ~LastCall(r).ok
           /\ run[r].result = ErrQuestionNotFound

\* a run on the id no row has, has thrown
C4_Witness ==
  \E r \in Runs : NotFound(r) /\ pc[r] = "thrown" /\ run[r].questionId = MissingId

\* C5: a run that has set status answered has stored its answer: the
\* question's answer_text is the answer the run generated.
C5_AnsweredWithAnswer ==
  \A r \in Runs :
    (pc[r] = "returned" /\ Succeeded(r, "updateQuestionStatus:answered")) =>
      /\ Succeeded(r, "updateQuestionAnswer")
      /\ questions[run[r].questionId].answer_text = run[r].answer

\* C6: a run that fails in the generation call (provider error or empty
\* response) issues the write of status failed next and then throws the
\* error that caused the failure.
C6_FailedThenSameError ==
  \A r \in Runs :
    (pc[r] = "thrown" /\ Made(r, "chat.completions.create")) =>
      LET n == Len(run[r].calls)
      IN  /\ Made(r, "updateQuestionStatus:pending")
          /\ run[r].calls[n].op = "updateQuestionStatus:failed"
          /\ run[r].calls[n - 1].op = "chat.completions.create"
          /\ run[r].result = run[r].error
          /\ run[r].result = IF run[r].calls[n - 1].ok THEN ErrNoAnswer ELSE ErrProvider
          /\ run[r].calls[n].ok => questions[run[r].questionId].status = "failed"

\* a run has thrown the provider's error after the failed write took effect
C6_Witness ==
  \E r \in Runs :
    /\ pc[r] = "thrown"
    /\ Made(r, "chat.completions.create")
    /\ run[r].result = ErrProvider
    /\ LastCall(r).ok
    /\ questions[run[r].questionId].status = "failed"

\* C7: when the write of status failed itself fails, the run still throws
\* the pipeline error it caught, never the error of the status write.
C7_StatusWriteFailureSwallowed ==
  \A r \in Runs :
    (pc[r] = "thrown" /\ ~LastCall(r).ok) =>
      /\ LastCall(r).op = "updateQuestionStatus:failed"
      /\ run[r].result = run[r].error
      /\ run[r].result # ErrStatusWrite

\* a run of an existing question has thrown its pipeline error although the
\* write of status failed did not take effect
C7_Witness ==
  \E r \in Runs :
    /\ pc[r] = "thrown"
    /\ Loaded(r)
    /\ ~LastCall(r).ok
    /\ run[r].result = ErrNoAnswer
    /\ questions[run[r].questionId].status = "pending"

\* C8: a finished run on an existing question leaves it answered with
\* answer_text set, or failed; never pending.
C8_FinishedRunIsTerminal ==
  \A r \in Finished :
    Loaded(r) =>
      LET q == questions[run[r].questionId]
      IN  \/ q.status = "answered" /\ q.answer_text # NULL
          \/ q.status = "failed"

\* C9: a request by a user who is not the question's user_id starts no
\* pipeline run and changes no question.
C9_OwnerOnly ==
  \A r \in Active :
    (/\ run[r].questionId \in DOMAIN questions
     /\ run[r].requester # questions[run[r].questionId].user_id) =>
      /\ run[r].calls = <<>>
      /\ questions = run[r].before

\* C10: when the generation provider returns no text, the run fails with
\* the no-answer error, issues the write of status failed (status is failed
\* once that write takes effect) and makes no write of answer_text, which
\* keeps the value it had before the run.
C10_EmptyResponseFails ==
  \A r \in Runs :
    (Succeeded(r, "chat.completions.create") /\ run[r].answer \in {"", NULL}) =>
      LET q == questions[run[r].questionId]
      IN  /\ pc[r] \in {"catch", "thrown"}
          /\ run[r].error = ErrNoAnswer
          /\ ~Made(r, "updateQuestionAnswer")
          /\ ~Made(r, "updateQuestionStatus:answered")
          /\ q.answer_text = run[r].before[run[r].questionId].answer_text
          /\ pc[r] = "thrown" =>
               /\ run[r].result = ErrNoAnswer
               /\ LastCall(r).op = "updateQuestionStatus:failed"
               /\ LastCall(r).ok => q.status = "failed"

\* a run on a question answered before has thrown on an empty string: the
\* question is failed and keeps the earlier answer
C10_Witness ==
  \E r \in Runs :
    /\ pc[r] = "thrown"
    /\ Succeeded(r, "chat.completions.create")
    /\ run[r].answer = ""
    /\ questions[run[r].questionId].status = "failed"
    /\ questions[run[r].questionId].answer_text \in Answers

\* The stored embedding rows of the title of run r's question.
StoredRows(r) ==
  { i \in 1..Len(chapter_embeddings) :
      chapter_embeddings[i].chapters.title_id = run[r].title_id }
\* run r has read the chapter embeddings and the store answered
RowsRead(r) == Loaded(r) /\ Succeeded(r, "selectChapterEmbeddings")
PositiveLimit(chapter_limit) == chapter_limit # NullNum /\ chapter_limit[1] > 0
\* A run that threw has issued the write of status failed last and thrown
\* the error it caught; the question is failed once that write took effect.
FailedWith(r, errors) ==
  /\ pc[r] \in {"catch", "thrown"}
  /\ run[r].error \in errors
  /\ pc[r] = "thrown" =>
       /\ run[r].result = run[r].error
       /\ LastCall(r).op = "updateQuestionStatus:failed"
       /\ LastCall(r).ok => questions[run[r].questionId].status = "failed"

\* C11: when the title has embedding rows that all decode but none is of a
\* chapter with order <= chapter_limit (a positive integer), the run fails
\* with the no-chapters error without calling the embedding provider or
\* the generation provider, and issues the write of status failed (status
\* is failed once that write takes effect).
C11_NoChapterWithinLimitFails ==
  \A r \in Runs :
    (/\ RowsRead(r)
     /\ PositiveLimit(run[r].chapter_limit)
     /\ StoredRows(r) # {}
     /\ \A i \in StoredRows(r) :
          /\ chapter_embeddings[i].chapters.order > run[r].chapter_limit[1]
          /\ ParseEmbedding(chapter_embeddings[i].embedding).ok) =>
      /\ FailedWith(r, {ErrNoChapters})
      /\ ~Made(r, "getEmbedding")
      /\ ~Made(r, "chat.completions.create")
      /\ ~Made(r, "updateQuestionStatus:pending")

\* a run on a pending question, whose limit lies below every embedded
\* chapter, has thrown and the question is failed
C11_Witness ==
  \E r \in Runs :
    /\ pc[r] = "thrown"
    /\ run[r].result = ErrNoChapters
    /\ PositiveLimit(run[r].chapter_limit)
    /\ StoredRows(r) # {}
    /\ run[r].before[run[r].questionId].status = "pending"
    /\ questions[run[r].questionId].status = "failed"

\* C12: when the read of the chapter embeddings returns an error or no row
\* of the question's title, the run fails with the fetch error, calls
\* neither provider and issues the write of status failed (status is failed
\* once that write takes effect).
C12_NoEmbeddingsFails ==
  \A r \in Runs :
    (/\ Loaded(r)
     /\ Made(r, "selectChapterEmbeddings")
     /\ (StoredRows(r) = {} \/ ~Succeeded(r, "selectChapterEmbeddings"))) =>
      /\ FailedWith(r, {ErrFetchEmbeddings, ErrStore})
      /\ ~Made(r, "getEmbedding")
      /\ ~Made(r, "chat.completions.create")

\* a run whose title has no embedding row has thrown the fetch error after a
\* read the store answered, and the question is failed
C12_Witness ==
  \E r \in Runs :
    /\ pc[r] = "thrown"
    /\ RowsRead(r)
    /\ StoredRows(r) = {}
    /\ run[r].result = ErrFetchEmbeddings
    /\ LastCall(r).ok
    /\ questions[run[r].questionId].status = "failed"

\* C13: a run that has read the embedding rows while a chapter of the title
\* with order <= chapter_limit has no embedding row fails (with a
\* data-integrity error) and never calls the generation provider.
Unembedded(r) ==
  { i \in 1..Len(ChapterTable) :
      /\ ChapterTable[i].title_id = run[r].title_id
      /\ \A j \in StoredRows(r) : chapter_embeddings[j].chapters.id # ChapterTable[i].id }

C13_MissingEmbeddingFails ==
  \A r \in Runs :
    (/\ RowsRead(r)
     /\ PositiveLimit(run[r].chapter_limit)
     /\ \E i \in Unembedded(r) : ChapterTable[i].order <= run[r].chapter_limit[1]) =>
      /\ pc[r] \in {"catch", "thrown"}
      /\ ~Made(r, "chat.completions.create")

\* C14: a run (of a question with a positive chapter_limit) that has read
\* the embedding rows while a stored embedding of the title does not decode
\* into Dimension numbers fails with the invalid-embedding error; no such
\* chapter is ever among the chapters it scored and selected.
Dimension == Len(VectorOf(1))
Decodes(embedding) ==
  LET parsed == ParseEmbedding(embedding)
  IN  parsed.ok /\ Len(parsed.value) = Dimension
Malformed(r) == { i \in StoredRows(r) : ~Decodes(chapter_embeddings[i].embedding) }

C14_MalformedEmbeddingFails ==
  \A r \in Runs :
    (RowsRead(r) /\ PositiveLimit(run[r].chapter_limit) /\ Malformed(r) # {}) =>
      /\ pc[r] \in {"catch", "thrown"}
      /\ run[r].error = ErrInvalidEmbedding
      /\ \A i \in Malformed(r) :
           chapter_embeddings[i].chapters.order \notin
             ChapterOrders(run[r].relevantChapters)

\* C15: a run in which every call succeeded returns the provider's response
\* and leaves the question answered with that response as answer_text; when
\* an earlier run had already persisted the same response, the second run
\* leaves the stored questions exactly as the first did.
AllOk(r) == \A i \in 1..Len(run[r].calls) : run[r].calls[i].ok

C15_Idempotent ==
  \A r \in Runs :
    (pc[r] = "returned" /\ AllOk(r)) =>
      LET q == questions[run[r].questionId]
          b == run[r].before[run[r].questionId]
      IN  /\ run[r].result = run[r].answer
          /\ q.answer_text = run[r].answer
          /\ q.status = "answered"
          /\ (b.status = "answered" /\ b.answer_text = run[r].answer) =>
               questions = run[r].before

\* the second of two runs on a question has returned the response that the
\* first had persisted, and the question is as the first run left it
C15_Witness ==
  \E r \in Runs :
    /\ pc[r] = "returned"
    /\ AllOk(r)
    /\ invocations = 2
    /\ run[r].before[run[r].questionId].status = "answered"
    /\ run[r].before[run[r].questionId].answer_text = run[r].answer
    /\ questions[run[r].questionId].status = "answered"
    /\ questions[run[r].questionId].answer_text = run[r].answer

\* The status a call writes when it takes effect.
StatusWritten(op) ==
  CASE op = "updateQuestionStatus:pending" -> "pending"
    [] op = "updateQuestionAnswer" -> "answered"
    [] op = "updateQuestionStatus:answered" -> "answered"
    [] op = "updateQuestionStatus:failed" -> "failed"
\* The writes of run r that took effect, in the order made.
EffectiveWrites(r) ==
  LET Test(c) == c.op \in StatusWrites /\ c.ok
  IN  SelectSeq(run[r].calls, Test)
LastEffective(r) == EffectiveWrites(r)[Len(EffectiveWrites(r))]
\* both slots hold a finished run on question q
BothFinishedOn(q) ==
  \A r \in Runs : pc[r] \in {"returned", "thrown"} /\ run[r].questionId = q
FullPipeline ==
  << "getQuestionById", "selectChapterEmbeddings", "getEmbedding",
     "updateQuestionStatus:pending", "chat.completions.create",
     "updateQuestionAnswer", "updateQuestionStatus:answered" >>

\* run r has issued its pending write and not yet its terminal write
InFlight(r) ==
  /\ pc[r] \in {"generate", "saveAnswer", "setAnswered", "catch"}
  /\ Made(r, "updateQuestionStatus:pending")

WriteSteps == {"setPending", "saveAnswer", "setAnswered", "catch"}

LastWriteWins(r) ==
  LET q == run[r].questionId
      call == run'[r].calls[Len(run'[r].calls)]
  IN  IF pc[r] \in WriteSteps /\ call.ok
        THEN /\ questions' =
                  [ questions EXCEPT
                      ![q].status = StatusWritten(call.op),
                      ![q].answer_text =
                        IF pc[r] = "saveAnswer" THEN run[r].answer ELSE @ ]
             /\ lastWriter'[q] = run[r].invocation
        ELSE questions' = questions /\ lastWriter' = lastWriter

C17_MutualExclusion ==
  \A r \in Runs, o \in Runs :
    (/\ r # o
     /\ run[r].questionId = run[o].questionId
     /\ InFlight(r) /\ Succeeded(r, "updateQuestionStatus:pending")) =>
      ~(InFlight(o) /\ Succeeded(o, "updateQuestionStatus:pending"))

\* C18: runs on different questions are independent. A step of a run
\* changes no row but that of its own question; and when the requests made
\* so far are all on different questions, a finished run has left its
\* question as its own writes alone determine: the status of its last write
\* that took effect and the answer it stored, over the row it found.
\* every request made so far still holds its slot
AllInSlots ==
  \A n \in 1..invocations : \E r \in Active : run[r].invocation = n

Alone(r) ==
  LET found == run[r].before[run[r].questionId]
  IN  [ found EXCEPT
          !.status = IF EffectiveWrites(r) = <<>> THEN @
                     ELSE StatusWritten(LastEffective(r).op),
          !.answer_text = IF Succeeded(r, "updateQuestionAnswer") THEN run[r].answer
                          ELSE @ ]

C18_Independent ==
  /\ [][\A r \in Runs :
         pc'[r] # pc[r] =>
           \A q \in QuestionIds :
             (q # run[r].questionId /\ q # run'[r].questionId) =>
               questions'[q] = questions[q]]_vars
  /\ [](\A r \in Runs :
         (/\ pc[r] \in {"returned", "thrown"}
          /\ run[r].questionId \in QuestionIds
          /\ AllInSlots
          /\ \A o \in Active \ {r} : run[o].questionId # run[r].questionId) =>
           questions[run[r].questionId] = Alone(r))

\* two runs on different questions have overlapped (the second began before
\* the first wrote answered) and both have returned; each question holds its
\* own run's answer
C18_Witness ==
  \E r \in Runs, o \in Runs :
    /\ pc[r] = "returned" /\ pc[o] = "returned"
    /\ run[r].questionId # run[o].questionId
    /\ run[r].invocation = 1 /\ run[o].invocation = 2
    /\ run[o].before[run[r].questionId].status = "pending"
    /\ AllOk(r) /\ AllOk(o)
    /\ run[r].answer # run[o].answer
    /\ questions[run[r].questionId].answer_text = run[r].answer
    /\ questions[run[o].questionId].answer_text = run[o].answer

\* C19: within one run the question load, the chapter-embedding read, the
\* embedding-provider call and the generation-provider call are each made
\* at most once, also when one of them fails; a failed one is followed by
\* nothing but the write of status failed.
OnceOnly ==
  {"getQuestionById", "selectChapterEmbeddings", "getEmbedding", "chat.completions.create"}

C19_NoRetry ==
  \A r \in Runs :
    /\ \A op \in OnceOnly :
         Cardinality({ i \in 1..Len(run[r].calls) : run[r].calls[i].op = op }) <= 1
    /\ \A i \in 1..Len(run[r].calls) :
         (run[r].calls[i].op \in OnceOnly /\ ~run[r].calls[i].ok) =>
           /\ pc[r] \in {"catch", "thrown"}
           /\ SubSeq(Ops(r), i + 1, Len(run[r].calls)) \in
                {<<>>, <<"updateQuestionStatus:failed">>}

\* a run has thrown after the embedding provider failed: the provider was
\* called once and the generation provider not at all
C19_Witness ==
  \E r \in Runs :
    /\ pc[r] = "thrown"
    /\ run[r].result = ErrEmbeddingProvider
    /\ Ops(r) = << "getQuestionById", "selectChapterEmbeddings", "getEmbedding",
                   "updateQuestionStatus:failed" >>

\* C20 (as stated): in a run on a question whose status is failed, every
\* write of answered or failed comes after a write of pending.
WasFailed(r) ==
  /\ Loaded(r)
  /\ run[r].before[run[r].questionId].status = "failed"

TerminalWrites ==
  {"updateQuestionAnswer", "updateQuestionStatus:answered", "updateQuestionStatus:failed"}

C20_PendingBeforeTerminalWrite ==
  \A r \in Runs :
    WasFailed(r) =>
      \A i \in 1..Len(run[r].calls) :
        run[r].calls[i].op \in TerminalWrites =>
          \E j \in 1..(i - 1) : run[r].calls[j].op = "updateQuestionStatus:pending"

\* C20 (amended): failed is not terminal. A run on a failed question is not
\* refused because of the status: it fails only as a run on any question
\* does. Once it has read the chapters and embedded the question it writes
\* pending, before the generation call and before any write of answered; a
\* run that fails earlier writes failed again without a pending write.
PipelineErrors ==
  { ErrStore, ErrFetchEmbeddings, ErrInvalidEmbedding, ErrNoChapters, ErrNoQuestionText,
    ErrEmbeddingProvider, ErrNoRelevant, ErrProvider, ErrNoAnswer }

C20_FailedIsNotTerminal ==
  \A r \in Runs :
    WasFailed(r) =>
      /\ run[r].error \in PipelineErrors \cup {NULL}
      /\ \A i \in 1..Len(run[r].calls) :
           run[r].calls[i].op \in {"chat.completions.create", "updateQuestionAnswer",
                                   "updateQuestionStatus:answered"} =>
             \E j \in 1..(i - 1) : run[r].calls[j].op = "updateQuestionStatus:pending"
      /\ (pc[r] = "generate" /\ LastCall(r).ok) =>
           questions[run[r].questionId].status = "pending"

\* a run on a failed question has returned: every call succeeded, the pending
\* write among them, and the question is answered with the run's answer
C20_Witness ==
  \E r \in Runs :
    /\ WasFailed(r)
    /\ pc[r] = "returned"
    /\ Ops(r) = FullPipeline
    /\ AllOk(r)
    /\ questions[run[r].questionId].status = "answered"
    /\ questions[run[r].questionId].answer_text = run[r].answer

-----------------------------------------------------------------------------
(* Ranking and context *)

\* the step of run r that scores the candidates and selects the relevant ones
Ranked(r) == pc[r] = "getEmbedding" /\ pc'[r] = "setPending"
\* the candidates of that step with their similarities
Scored(r) == ScoreChapters(run[r].chaptersWithEmbeddings, run'[r].questionEmbedding)
Selected(r) == run'[r].relevantChapters
Higher(x, y) == SimilarityDiff(x, y) = 1
IsSelected(r, chapter) ==
  \E k \in 1..Len(Selected(r)) : Selected(r)[k].order = chapter.order

\* C21: the ranker selects exactly min(5, n) of the n candidates that passed
\* the boundary filter, and no candidate left out has a strictly higher
\* similarity than a selected one.
C21_TopK ==
  [][\A r \in Runs :
       Ranked(r) =>
         /\ Len(Selected(r)) = Min(TopK, Len(Scored(r)))
         /\ \A i \in 1..Len(Scored(r)), j \in 1..Len(Selected(r)) :
              ~IsSelected(r, Scored(r)[i]) =>
                ~Higher(Scored(r)[i].similarity, Selected(r)[j].similarity)]_vars

\* every candidate of the ranking step has a defined similarity
AllDefined(r) == \A i \in 1..Len(Scored(r)) : ~Scored(r)[i].similarity.nan
Tied(x, y) == ~x.nan /\ ~y.nan /\ SimilarityDiff(x, y) = 0

\* C22: ties in similarity are broken by ascending chapter order, whatever
\* the order in which the store returned the rows: of two candidates with
\* equal similarity, the one with the larger order is selected only if the
\* one with the smaller order is (all similarities being defined).
C22_TiesByAscendingOrder ==
  [][\A r \in Runs :
       (Ranked(r) /\ AllDefined(r)) =>
         \A i \in 1..Len(Scored(r)), j \in 1..Len(Scored(r)) :
           (/\ Tied(Scored(r)[i].similarity, Scored(r)[j].similarity)
            /\ Scored(r)[i].order < Scored(r)[j].order
            /\ IsSelected(r, Scored(r)[j])) => IsSelected(r, Scored(r)[i])]_vars

\* the runs whose context has been assembled
Assembled == { r \in Runs : run[r].relevantChapters # <<>> }
Ascending(chapters) ==
  \A i \in 1..Len(chapters), j \in 1..Len(chapters) :
    i < j => chapters[i].order < chapters[j].order
TextOf(content) == IF content = NULL THEN "" ELSE content
\* "Chapter <order>: <name>" followed by the content, the name as stored
NamedRendering(chapter) ==
  "Chapter " \o ToString(chapter.order) \o ": " \o TextOf(chapter.name)
    \o "\n" \o TextOf(chapter.content)
\* the same, a chapter without a name being named "Chapter <order>"
FallbackRendering(chapter) ==
  IF TextOf(chapter.name) = ""
    THEN "Chapter " \o ToString(chapter.order) \o ": Chapter "
           \o ToString(chapter.order) \o "\n" \o TextOf(chapter.content)
    ELSE NamedRendering(chapter)
\* renderings separated by a blank line
RECURSIVE Listing(_)
Listing(renderings) ==
  IF Len(renderings) = 1 THEN renderings[1]
  ELSE renderings[1] \o "\n\n" \o Listing(Tail(renderings))

\* C23 (as stated): the assembled context lists the selected chapters in
\* ascending chapter order, each rendered as "Chapter <order>: <name>"
\* followed by its content, separated by a blank line.
C23_ContextAsStated ==
  \A r \in Assembled :
    /\ Ascending(run[r].relevantChapters)
    /\ run[r].contextText =
         Listing([ i \in 1..Len(run[r].relevantChapters) |->
                     NamedRendering(run[r].relevantChapters[i]) ])

\* C23 (amended): the assembled context lists the selected chapters in
\* ascending chapter order, whatever their similarity ranking, each rendered
\* as "Chapter <order>: <name>" and its content on the next line, separated by
\* a blank line; a chapter with no name is rendered with "Chapter <order>" as
\* its name, and one with no content with an empty content.
C23_ContextInChapterOrder ==
  \A r \in Assembled :
    /\ Ascending(run[r].relevantChapters)
    /\ run[r].contextText =
         Listing([ i \in 1..Len(run[r].relevantChapters) |->
                     FallbackRendering(run[r].relevantChapters[i]) ])

\* a context of several chapters whose chapter order is not their similarity
\* ranking, with a chapter that has no name and one that has no content
C23_Witness ==
  \E r \in Assembled :
    LET chapters == run[r].relevantChapters
    IN  /\ \E i \in 1..Len(chapters), j \in 1..Len(chapters) :
             i < j /\ Higher(chapters[j].similarity, chapters[i].similarity)
        /\ \E i \in 1..Len(chapters) : chapters[i].name = ""
        /\ \E i \in 1..Len(chapters) : chapters[i].content = NULL
        /\ \A i \in 1..Len(chapters) : ~chapters[i].similarity.nan

IsZeroVector(vec) == \A i \in 1..Len(vec) : vec[i] = 0
MinusOne == [ nan |-> FALSE, num |-> -1, den |-> 1 ]
\* candidate i of the ranking step is scored from a zero vector
ZeroScored(r, i) ==
  \/ IsZeroVector(run[r].chaptersWithEmbeddings[i].embedding)
  \/ IsZeroVector(run'[r].questionEmbedding)
SameLengths(r) ==
  \A i \in 1..Len(run[r].chaptersWithEmbeddings) :
    Len(run[r].chaptersWithEmbeddings[i].embedding) = Len(run'[r].questionEmbedding)

\* C24: a zero-vector embedding (chapter or question) yields similarity -1,
\* never NaN: such a chapter is ranked below every chapter with a defined
\* similarity (it is selected only if every other candidate is) and the
\* others are selected as if it were not there (vectors of equal length).
C24_ZeroVectorRanksLowest ==
  [][\A r \in Runs :
       (Ranked(r) /\ SameLengths(r)) =>
         \A i \in 1..Len(Scored(r)) :
           ZeroScored(r, i) =>
             /\ Scored(r)[i].similarity = MinusOne
             /\ IsSelected(r, Scored(r)[i]) =>
                  \A j \in 1..Len(Scored(r)) : IsSelected(r, Scored(r)[j])
             /\ \A j \in 1..Len(Scored(r)), k \in 1..Len(Scored(r)) :
                  (/\ ~ZeroScored(r, j) /\ ~ZeroScored(r, k)
                   /\ IsSelected(r, Scored(r)[k]) /\ ~IsSelected(r, Scored(r)[j])) =>
                    ~Higher(Scored(r)[j].similarity, Scored(r)[k].similarity)]_vars

\* C25: a chapter embedding whose length differs from the question
\* embedding's makes scoring fail: no run goes on past the ranking step with
\* a similarity computed from vectors of unequal length.
C25_LengthMismatchFails ==
  [][\A r \in Runs : Ranked(r) => SameLengths(r)]_vars

-----------------------------------------------------------------------------
(* Persistence of the outcome *)

\* C26: a run that returns an answer to its caller, no other request writing
\* the question meanwhile, leaves the question stored with status answered
\* and answer_text equal to the returned answer; its write of the answer did
\* not fail.
C26_ReturnedIsPersisted ==
  \A r \in Runs :
    pc[r] = "returned" =>
      /\ Succeeded(r, "updateQuestionAnswer")
      /\ questions[run[r].questionId].status = "answered"
      /\ questions[run[r].questionId].answer_text = run[r].result

\* the runs that failed on a question stored as answered when they began
FailedReruns ==
  { r \in Runs : /\ pc[r] = "thrown"
                 /\ ~NotFound(r)
                 /\ run[r].before[run[r].questionId].status = "answered" }

\* C27: a failing run changes only the status. A run on a previously
\* answered question that fails at any step leaves every row as it was but
\* for that question's status: answer_text keeps the earlier answer, and the
\* status is failed once the write of failed has taken effect.
C27_FailureKeepsAnswer ==
  \A r \in FailedReruns :
    LET q == run[r].questionId
    IN  /\ questions = [ run[r].before EXCEPT ![q].status = questions[q].status ]
        /\ questions[q].answer_text = run[r].before[q].answer_text
        /\ Succeeded(r, "updateQuestionStatus:failed") => questions[q].status = "failed"

\* a re-run of an answered question has failed: status failed is stored
\* together with the earlier, non-null answer
C27_Witness ==
  \E r \in FailedReruns :
    LET q == run[r].questionId
    IN  /\ run[r].before[q].answer_text \in Answers
        /\ questions[q].status = "failed"
        /\ questions[q].answer_text = run[r].before[q].answer_text

-----------------------------------------------------------------------------
(* Routes on a stored question *)

StoredRoutes == { "PUT /:questionId/answer", "PUT /:questionId/status", "DELETE /:questionId" }
\* the requests to these routes that have been answered
Answered == { r \in Runs : pc[r] = "responded" /\ run[r].route \in StoredRoutes }
\* the question of the request was stored when the request arrived
Stored(r) == run[r].questionId \in DOMAIN run[r].before
NotOwner(r) ==
  Stored(r) /\ run[r].before[run[r].questionId].user_id # run[r].requester
\* the request passes the validation of its parameter and body
ValidRequest(r) ==
  /\ IsUuid(run[r].questionId)
  /\ CASE run[r].route = "PUT /:questionId/answer" -> updateAnswerSchema(run[r].body)
       [] run[r].route = "PUT /:questionId/status" -> updateStatusSchema(run[r].body)
       [] OTHER -> TRUE
Untouched(r) == questions = run[r].before

\* C28 (as stated): on the three routes, a request by a user who is not the
\* question's user_id is answered 403 and leaves the question unchanged; a
\* request for a question that cannot be loaded is answered 404 with no write.
C28_NonOwner403Missing404 ==
  \A r \in Answered :
    /\ NotOwner(r) => run[r].response = 403 /\ Untouched(r)
    /\ ~Stored(r) => run[r].response = 404 /\ Untouched(r)

\* C28 (amended): on the three routes, a request that fails the validation
\* of its parameter or body is answered 400 before the question is read; a
\* valid request whose question cannot be loaded (no such row, or the store
\* fails) is answered 404; a valid request whose question is loaded and
\* belongs to another user is answered 403. None of the three makes a write,
\* the table is unchanged, and only its owner's request changes a question.
C28_OwnerOnlyWrites ==
  \A r \in Answered :
    /\ ~ValidRequest(r) =>
         run[r].response = 400 /\ run[r].calls = <<>> /\ Untouched(r)
    /\ (ValidRequest(r) /\ ~Succeeded(r, "getQuestionById")) =>
         run[r].response = 404 /\ Ops(r) = <<"getQuestionById">> /\ Untouched(r)
    /\ (ValidRequest(r) /\ ~Stored(r)) => ~Succeeded(r, "getQuestionById")
    /\ (ValidRequest(r) /\ Succeeded(r, "getQuestionById") /\ NotOwner(r)) =>
         run[r].response = 403 /\ Ops(r) = <<"getQuestionById">> /\ Untouched(r)
    /\ ~Untouched(r) =>
         /\ Stored(r) /\ ~NotOwner(r) /\ run[r].response = 200
         /\ \A q \in DOMAIN run[r].before \ {run[r].questionId} :
              q \in DOMAIN questions /\ questions[q] = run[r].before[q]

\* a valid request on a stored question of another user has been answered
\* 403 after the question was loaded
C28_Witness ==
  \E r \in Answered :
    /\ ValidRequest(r) /\ NotOwner(r)
    /\ Succeeded(r, "getQuestionById")
    /\ run[r].response = 403
    /\ run[r].before[run[r].questionId].status = "answered"

\* the requests to POST /api/questions that have been answered
Posted == { r \in Runs : pc[r] = "responded" /\ run[r].route = "POST /" }
CreatedId(r) == NewId(run[r].invocation)
\* the body's chapter_limit is missing, not a number, not an integer or < 1
\* (a string is the number it spells)
BadLimit(body) ==
  \/ "chapter_limit" \notin DOMAIN body
  \/ LET limit == body["chapter_limit"]
     IN  \/ limit.type = "null"
         \/ limit.type = "number" /\ (limit.den # 1 \/ limit.num < 1)
         \/ limit.type = "string" /\ limit.text \notin {"1", "2"}

\* C29: every question created through POST /api/questions is stored with
\* status pending, user_id equal to the authenticated user whatever the body
\* holds, and chapter_limit an integer >= 1; a body whose chapter_limit is
\* missing, not an integer or < 1 is answered 400 and creates nothing; no
\* request changes a stored row.
C29_CreatedPendingForRequester ==
  \A r \in Posted :
    /\ \A q \in DOMAIN run[r].before : q \in DOMAIN questions /\ questions[q] = run[r].before[q]
    /\ DOMAIN questions \ DOMAIN run[r].before \subseteq {CreatedId(r)}
    /\ CreatedId(r) \in DOMAIN questions <=> run[r].response = 201
    /\ CreatedId(r) \in DOMAIN questions =>
         LET row == questions[CreatedId(r)]
         IN  /\ row.status = "pending"
             /\ row.user_id = run[r].requester
             /\ row.chapter_limit # NullNum /\ row.chapter_limit[1] >= 1
             /\ row.answer_text = NULL
    /\ BadLimit(run[r].body) => run[r].response = 400 /\ Untouched(r)
    /\ DOMAIN run[r].body \ {"title_id", "question_text", "chapter_limit"} # {} =>
         run[r].response = 400 /\ Untouched(r)

\* a question has been created, and then a body naming another user as
\* user_id has been answered 400, creating nothing
C29_Witness ==
  \E r \in Posted :
    /\ run[r].response = 400
    /\ "user_id" \in DOMAIN run[r].body
    /\ run[r].body["user_id"].text # run[r].requester
    /\ ~BadLimit(run[r].body)
    /\ \E q \in DOMAIN questions \ QuestionIds :
         /\ questions[q].status = "pending"
         /\ questions[q].user_id = run[r].requester

====
